---- MODULE Spec2Model ----
(***************************************************************************)
(* Model of the underwriting-assistant backend: the lifespan handler that  *)
(* builds the RAG chain into app_state (backend/main.py), the POST         *)
(* /analyze handler (backend/main.py) and the PDF text extraction it calls *)
(* (backend/core.py).                                                      *)
(*                                                                         *)
(* Text is modelled as a sequence of one-character strings, so that the    *)
(* substring test, the suffix test and page concatenation are computed.    *)
(***************************************************************************)
EXTENDS Integers, Sequences, FiniteSets, TLC

\* ------------------------------------------------------------------ bounds
\* Largest number of pages of a PDF handed to the text extraction.
MaxPages == 3
\* Number of /analyze requests the server handles in one run.
MaxReq == 2

Requests == 1..MaxReq

\* ------------------------------------------------------- string literals
InvalidFileTypeDetail ==
    <<"I", "n", "v", "a", "l", "i", "d", " ", "f", "i", "l", "e", " ", "t",
      "y", "p", "e", ".", " ", "P", "l", "e", "a", "s", "e", " ", "u", "p",
      "l", "o", "a", "d", " ", "a", " ", "P", "D", "F", ".">>
ErrorValue ==
    <<"E", "r", "r", "o", "r", ":", " ", "C", "o", "u", "l", "d", " ", "n",
      "o", "t", " ", "r", "e", "a", "d", " ", "t", "e", "x", "t", " ", "f",
      "r", "o", "m", " ", "P", "D", "F", ".">>
NotInitializedDetail ==
    <<"R", "A", "G", " ", "c", "h", "a", "i", "n", " ", "n", "o", "t", " ",
      "i", "n", "i", "t", "i", "a", "l", "i", "z", "e", "d", ".">>
AnalysisErrorDetail ==
    <<"A", "n", " ", "e", "r", "r", "o", "r", " ", "o", "c", "c", "u", "r",
      "r", "e", "d", " ", "d", "u", "r", "i", "n", "g", " ", "a", "n", "a",
      "l", "y", "s", "i", "s", ".">>
ErrorMarker == <<"E", "r", "r", "o", "r", ":">>
DotPdf == <<".", "p", "d", "f">>

\* ----------------------------------------------------- string operations
\* Python's  s.endswith(suffix)
EndsWith(s, suffix) ==
    /\ Len(s) >= Len(suffix)
    /\ SubSeq(s, Len(s) - Len(suffix) + 1, Len(s)) = suffix

\* Python's  sub in s
Contains(s, sub) ==
    \E i \in 0..(Len(s) - Len(sub)) : SubSeq(s, i + 1, i + Len(sub)) = sub

\* ------------------------------------------------------------ PDF inputs
\* What PdfReader makes of the uploaded bytes: the empty byte string and
\* garbage bytes make the reader raise; a PDF has pages, and each page's
\* extract_text() either returns a text or raises.
Page(t) == [ok |-> TRUE, text |-> t]
FailPage == [ok |-> FALSE, text |-> <<>>]
PageTexts == { <<>>, <<"a">>, <<"E", "r", "r">>, <<"o", "r", ":">> }
PageOutcomes == { Page(t) : t \in PageTexts } \cup { FailPage }

EmptyBytes == [bytes |-> "empty", pages |-> <<>>]
GarbageBytes == [bytes |-> "garbage", pages |-> <<>>]
Pdf(pages) == [bytes |-> "pdf", pages |-> pages]

AllPdfBytes ==
    { EmptyBytes, GarbageBytes } \cup
    { Pdf(ps) : ps \in UNION { [1..n -> PageOutcomes] : n \in 0..MaxPages } }

\* The uploads the server is exercised with.
SampleUploads ==
    { EmptyBytes,
      GarbageBytes,
      Pdf(<< >>),
      Pdf(<< Page(<<>>) >>),
      Pdf(<< Page(<<"a">>) >>),
      Pdf(<< Page(<<"a">>), Page(<<"a">>) >>),
      Pdf(<< Page(<<"a">>), FailPage >>),
      Pdf(<< Page(<<"a">>), Page(<<"E", "r", "r">>), Page(<<"o", "r", ":">>) >>) }

Filenames ==
    { <<"a", ".", "p", "d", "f">>,
      <<"p", "d", "f">>,
      <<".", "p", "d", "f", "x">> }

\* ------------------------------------------------- core.py: extraction
\* The loop  for page in reader.pages: application_text += page.extract_text()
\* from page i on, with the text accumulated so far.  A raising page ends
\* the loop with the exception.
RECURSIVE ExtractLoop(_, _, _)
ExtractLoop(pages, i, acc) ==
    IF i > Len(pages) THEN [raised |-> FALSE, text |-> acc]
    ELSE IF ~pages[i].ok THEN [raised |-> TRUE, text |-> acc]
    ELSE ExtractLoop(pages, i + 1, acc \o pages[i].text)

\* Variant: a separator is put after each page and a raising page is skipped.
RECURSIVE ExtractLoop_lenient(_, _, _)
ExtractLoop_lenient(pages, i, acc) ==
    IF i > Len(pages) THEN [raised |-> FALSE, text |-> acc]
    ELSE IF ~pages[i].ok THEN ExtractLoop_lenient(pages, i + 1, acc)
    ELSE ExtractLoop_lenient(pages, i + 1, acc \o pages[i].text \o <<" ">>)

\* Variant: the empty-text check is missing.
load_application_text_from_bytes_nocheck(pdf_bytes) ==
    IF pdf_bytes.bytes # "pdf" THEN ErrorValue
    ELSE LET r == ExtractLoop(pdf_bytes.pages, 1, <<>>)
         IN  IF r.raised THEN ErrorValue ELSE r.text

\* Variant of the whole function built on the lenient loop.
load_application_text_from_bytes_lenient(pdf_bytes) ==
    IF pdf_bytes.bytes # "pdf" THEN ErrorValue
    ELSE LET r == ExtractLoop_lenient(pdf_bytes.pages, 1, <<>>)
         IN  IF r.raised THEN ErrorValue
             ELSE IF r.text = <<>> THEN ErrorValue
             ELSE r.text

load_application_text_from_bytes(pdf_bytes) ==
    IF pdf_bytes.bytes # "pdf"
    THEN ErrorValue                      \* PdfReader raised: except branch
    ELSE LET r == ExtractLoop(pdf_bytes.pages, 1, <<>>)
         IN  IF r.raised THEN ErrorValue \* a page raised: except branch
             ELSE IF r.text = <<>> THEN ErrorValue
             ELSE r.text

\* -------------------------------------------------------------- values
NoChain == "None"                 \* Python's None for a missing chain
NoRetriever == "None"
TheRetriever == "retriever"       \* the object create_vector_db returns
TheChain == "rag_chain"           \* the object create_rag_chain returns

\* Python dict operations on app_state
EmptyDict == [k \in {} |-> NoChain]
DictSet(d, key, val) ==
    [k \in (DOMAIN d) \cup {key} |-> IF k = key THEN val ELSE d[k]]
DictGet(d, key) == IF key \in DOMAIN d THEN d[key] ELSE NoChain

\* HTTP responses: an HTTPException(status, detail) or the 200 JSON body
\* {"analysis": A}.
NoResponse == [kind |-> "none", status |-> 0, detail |-> <<>>, analysis |-> <<>>]
HttpError(status, detail) ==
    [kind |-> "http_exception", status |-> status, detail |-> detail,
     analysis |-> <<>>]
AnalysisBody(a) ==
    [kind |-> "json", status |-> 200, detail |-> <<>>, analysis |-> a]

\* What rag_chain.invoke does (external collaborator): it returns a dict with
\* an 'answer', returns a dict without that key, or raises with a message.
Answers == { <<"o", "k">>, <<"N", "o", " ", "r", "i", "s", "k", "s">> }
ExceptionMessages == { <<"b", "o", "o", "m">> }
InvokeOutcomes ==
    { [kind |-> "answer", val |-> a] : a \in Answers } \cup
    { [kind |-> "raise", val |-> m] : m \in ExceptionMessages } \cup
    { [kind |-> "nokey", val |-> <<>>] }

\* --------------------------------------------------------------- state
VARIABLES
    app_state,      \* main.py: the global dict
    lifespan_pc,    \* where the lifespan coroutine stands
    retriever,      \* lifespan's local  retriever
    rag_chain,      \* lifespan's local  rag_chain
    store_count,    \* history: number of writes of app_state["rag_chain"]
    req,            \* per request: position, filename and uploaded file
    resp,           \* per request: the response sent, or NoResponse
    text,           \* per request: the handler's local application_text
    trace,          \* history, per request: the stages executed, in order
    calls,          \* history, per request: the rag_chain.invoke calls made
    held,           \* history, per request: app_state held a chain at a step
    ex_pdf_bytes,   \* extraction harness: the argument
    ex_result,      \* extraction harness: the returned value
    ex_pc           \* extraction harness: "call" or "returned"

vars == << app_state, lifespan_pc, retriever, rag_chain, store_count,
           req, resp, text, trace, calls, held,
           ex_pdf_bytes, ex_result, ex_pc >>
serverVars == << app_state, lifespan_pc, retriever, rag_chain, store_count,
                 req, resp, text, trace, calls, held >>
lifespanVars == << app_state, lifespan_pc, retriever, rag_chain, store_count >>
requestVars == << req, resp, text, trace, calls, held >>
harnessVars == << ex_pdf_bytes, ex_result, ex_pc >>

HoldsChain(st) == DictGet(st, "rag_chain") # NoChain

IdleRequest ==
    [pc |-> "idle", filename |-> <<>>, file |-> EmptyBytes]

ServerInit ==
    /\ app_state = EmptyDict
    /\ lifespan_pc = "startup"
    /\ retriever = NoRetriever
    /\ rag_chain = NoChain
    /\ store_count = 0
    /\ req = [r \in Requests |-> IdleRequest]
    /\ resp = [r \in Requests |-> NoResponse]
    /\ text = [r \in Requests |-> <<>>]
    /\ trace = [r \in Requests |-> <<>>]
    /\ calls = [r \in Requests |-> <<>>]
    /\ held = [r \in Requests |-> FALSE]

HarnessIdle ==
    /\ ex_pdf_bytes = EmptyBytes
    /\ ex_result = <<>>
    /\ ex_pc = "idle"

Init == ServerInit /\ HarnessIdle

\* ------------------------------------------------------ main.py: lifespan
\* Variant: a failure of create_rag_chain is swallowed and startup goes on
\* with no chain.
CreateRagChain_swallow ==
    /\ lifespan_pc = "db_built"
    /\ \E ok \in BOOLEAN :
          /\ rag_chain' = IF ok THEN TheChain ELSE NoChain
          /\ lifespan_pc' = "chain_built"
    /\ UNCHANGED << app_state, retriever, store_count >>
    /\ UNCHANGED requestVars
    /\ UNCHANGED harnessVars

\* retriever = create_vector_db(guidelines_path); an exception leaves the
\* lifespan before its yield.
CreateVectorDb ==
    /\ lifespan_pc = "startup"
    /\ \E ok \in BOOLEAN :
          IF ok
          THEN /\ retriever' = TheRetriever
               /\ lifespan_pc' = "db_built"
          ELSE /\ retriever' = retriever
               /\ lifespan_pc' = "failed"
    /\ UNCHANGED << app_state, rag_chain, store_count >>
    /\ UNCHANGED requestVars
    /\ UNCHANGED harnessVars

\* rag_chain = create_rag_chain(retriever)
CreateRagChain ==
    /\ lifespan_pc = "db_built"
    /\ \E ok \in BOOLEAN :
          IF ok
          THEN /\ rag_chain' = TheChain
               /\ lifespan_pc' = "chain_built"
          ELSE /\ rag_chain' = rag_chain
               /\ lifespan_pc' = "failed"
    /\ UNCHANGED << app_state, retriever, store_count >>
    /\ UNCHANGED requestVars
    /\ UNCHANGED harnessVars

\* app_state["rag_chain"] = rag_chain, then the yield
StoreChain ==
    /\ lifespan_pc = "chain_built"
    /\ app_state' = DictSet(app_state, "rag_chain", rag_chain)
    /\ store_count' = store_count + 1
    /\ lifespan_pc' = "serving"
    /\ UNCHANGED << retriever, rag_chain >>
    /\ UNCHANGED requestVars
    /\ UNCHANGED harnessVars

\* after the yield: app_state.clear()
Shutdown ==
    /\ lifespan_pc = "serving"
    /\ app_state' = EmptyDict
    /\ lifespan_pc' = "stopped"
    /\ UNCHANGED << retriever, rag_chain, store_count >>
    /\ UNCHANGED requestVars
    /\ UNCHANGED harnessVars

\* --------------------------------------- main.py: analyze_application
\* Variant: the extension is looked for anywhere in the filename.
analyze_begin_anywhere(filename) ==
    IF ~Contains(filename, DotPdf)
    THEN [done |-> TRUE,
          response |-> HttpError(400, InvalidFileTypeDetail),
          stages |-> <<"filename_check", "respond">>]
    ELSE [done |-> FALSE,
          response |-> NoResponse,
          stages |-> <<"filename_check">>]

\* The handler up to its only suspension point,  await file.read():
\* the filename check and its 400.
analyze_begin(filename) ==
    IF ~EndsWith(filename, DotPdf)
    THEN [done |-> TRUE,
          response |-> HttpError(400, InvalidFileTypeDetail),
          stages |-> <<"filename_check", "respond">>]
    ELSE [done |-> FALSE,
          response |-> NoResponse,
          stages |-> <<"filename_check">>]

\* Variant: the error value is recognised by equality.
ExtractionFailed_equals(application_text) == application_text = ErrorValue

\* if "Error:" in application_text
ExtractionFailed(application_text) == Contains(application_text, ErrorMarker)

\* Variant: the check of the looked-up chain is missing.
ChainMissing_never(chain) == FALSE

\* if not rag_chain
ChainMissing(chain) == chain = NoChain

\* Variant: the exception's text is sent as the detail.
RunAnalysis_leak(chain, application_text, outcome) ==
    IF chain = NoChain
    THEN [response |-> HttpError(500, AnalysisErrorDetail),
          stages |-> <<>>, calls |-> <<>>]
    ELSE [response |->
              IF outcome.kind = "answer" THEN AnalysisBody(outcome.val)
              ELSE IF outcome.kind = "raise" THEN HttpError(500, outcome.val)
              ELSE HttpError(500, AnalysisErrorDetail),
          stages |-> <<"invoke_chain">>,
          calls |-> << [input |-> application_text, outcome |-> outcome] >>]

\* Variant: only the first character of the text is passed to the chain.
RunAnalysis_truncate(chain, application_text, outcome) ==
    IF chain = NoChain
    THEN [response |-> HttpError(500, AnalysisErrorDetail),
          stages |-> <<>>, calls |-> <<>>]
    ELSE [response |->
              IF outcome.kind = "answer" THEN AnalysisBody(outcome.val)
              ELSE HttpError(500, AnalysisErrorDetail),
          stages |-> <<"invoke_chain">>,
          calls |-> << [input |-> SubSeq(application_text, 1, 1),
                        outcome |-> outcome] >>]

\* Variant: a failed invocation is tried a second time.
RunAnalysis_retry(chain, application_text, outcome) ==
    IF chain = NoChain
    THEN [response |-> HttpError(500, AnalysisErrorDetail),
          stages |-> <<>>, calls |-> <<>>]
    ELSE LET call == [input |-> application_text, outcome |-> outcome]
         IN  IF outcome.kind = "answer"
             THEN [response |-> AnalysisBody(outcome.val),
                   stages |-> <<"invoke_chain">>,
                   calls |-> << call >>]
             ELSE [response |-> HttpError(500, AnalysisErrorDetail),
                   stages |-> <<"invoke_chain", "invoke_chain">>,
                   calls |-> << call, call >>]

\* The try block: response = rag_chain.invoke({"input": application_text});
\* return {"analysis": response["answer"]}; any exception becomes the 500
\* with the fixed detail.  Calling invoke on None raises before any call.
RunAnalysis(chain, application_text, outcome) ==
    IF chain = NoChain
    THEN [response |-> HttpError(500, AnalysisErrorDetail),
          stages |-> <<>>, calls |-> <<>>]
    ELSE [response |->
              IF outcome.kind = "answer" THEN AnalysisBody(outcome.val)
              ELSE HttpError(500, AnalysisErrorDetail),
          stages |-> <<"invoke_chain">>,
          calls |-> << [input |-> application_text, outcome |-> outcome] >>]

\* Variant: a rejected upload makes the handler drop the stored chain.
analyze_resume_reset(contents, st, outcome) ==
    LET application_text == load_application_text_from_bytes(contents)
    IN  IF ExtractionFailed(application_text)
        THEN [response |-> HttpError(400, application_text),
              text |-> application_text,
              stages |-> <<"read_body", "extract_text", "respond">>,
              calls |-> <<>>,
              app_state |-> EmptyDict]
        ELSE LET chain == DictGet(st, "rag_chain")
             IN  IF ChainMissing(chain)
                 THEN [response |-> HttpError(500, NotInitializedDetail),
                       text |-> application_text,
                       stages |-> <<"read_body", "extract_text",
                                    "lookup_chain", "respond">>,
                       calls |-> <<>>,
                       app_state |-> st]
                 ELSE LET run == RunAnalysis(chain, application_text, outcome)
                      IN  [response |-> run.response,
                           text |-> application_text,
                           stages |-> <<"read_body", "extract_text",
                                        "lookup_chain">>
                                      \o run.stages \o <<"respond">>,
                           calls |-> run.calls,
                           app_state |-> st]

\* The handler from the completion of  await file.read()  to its response,
\* as a function of the bytes read, the global app_state and what the chain
\* does when invoked; it yields the response and the app_state it leaves.
analyze_resume(contents, st, outcome) ==
    LET application_text == load_application_text_from_bytes(contents)
    IN  IF ExtractionFailed(application_text)
        THEN [response |-> HttpError(400, application_text),
              text |-> application_text,
              stages |-> <<"read_body", "extract_text", "respond">>,
              calls |-> <<>>,
              app_state |-> st]
        ELSE LET chain == DictGet(st, "rag_chain")
             IN  IF ChainMissing(chain)
                 THEN [response |-> HttpError(500, NotInitializedDetail),
                       text |-> application_text,
                       stages |-> <<"read_body", "extract_text",
                                    "lookup_chain", "respond">>,
                       calls |-> <<>>,
                       app_state |-> st]
                 ELSE LET run == RunAnalysis(chain, application_text, outcome)
                      IN  [response |-> run.response,
                           text |-> application_text,
                           stages |-> <<"read_body", "extract_text",
                                        "lookup_chain">>
                                      \o run.stages \o <<"respond">>,
                           calls |-> run.calls,
                           app_state |-> st]

\* A request arrives with a filename and a file; the handler runs to the
\* filename check's 400 or to  await file.read().
AnalyzeBegin(r) ==
    /\ req[r].pc = "idle"
    /\ \E filename \in Filenames, file \in SampleUploads :
          LET b == analyze_begin(filename)
          IN  /\ req' = [req EXCEPT ![r] =
                            [pc |-> IF b.done THEN "done" ELSE "reading",
                             filename |-> filename,
                             file |-> file]]
              /\ resp' = [resp EXCEPT ![r] = b.response]
              /\ trace' = [trace EXCEPT ![r] = b.stages]
    /\ held' = [held EXCEPT ![r] = HoldsChain(app_state)]
    /\ UNCHANGED << text, calls >>
    /\ UNCHANGED lifespanVars
    /\ UNCHANGED harnessVars

\* The read completes and the handler runs to its response.
AnalyzeResume(r) ==
    /\ req[r].pc = "reading"
    /\ \E outcome \in InvokeOutcomes :
          LET res == analyze_resume(req[r].file, app_state, outcome)
          IN  /\ resp' = [resp EXCEPT ![r] = res.response]
              /\ text' = [text EXCEPT ![r] = res.text]
              /\ trace' = [trace EXCEPT ![r] = trace[r] \o res.stages]
              /\ calls' = [calls EXCEPT ![r] = res.calls]
              /\ app_state' = res.app_state
    /\ req' = [req EXCEPT ![r].pc = "done"]
    /\ held' = [held EXCEPT ![r] = held[r] \/ HoldsChain(app_state)]
    /\ UNCHANGED << lifespan_pc, retriever, rag_chain, store_count >>
    /\ UNCHANGED harnessVars

Next ==
    \/ CreateVectorDb
    \/ CreateRagChain
    \/ StoreChain
    \/ Shutdown
    \/ \E r \in Requests : AnalyzeBegin(r)
    \/ \E r \in Requests : AnalyzeResume(r)

Spec == Init /\ [][Next]_vars

\* ------------------------------------------- extraction on its own
\* load_application_text_from_bytes called once on each PDF input of up to
\* MaxPages pages.
InitExtract ==
    /\ ServerInit
    /\ ex_pdf_bytes \in AllPdfBytes
    /\ ex_result = <<>>
    /\ ex_pc = "call"

ExtractCall ==
    /\ ex_pc = "call"
    /\ ex_result' = load_application_text_from_bytes(ex_pdf_bytes)
    /\ ex_pc' = "returned"
    /\ UNCHANGED ex_pdf_bytes
    /\ UNCHANGED serverVars

NextExtract == ExtractCall

SpecExtract == InitExtract /\ [][NextExtract]_vars

\* ========================================================== properties
Done(r) == req[r].pc = "done"
Started(r) == req[r].pc # "idle"
Stages(r) == { trace[r][i] : i \in 1..Len(trace[r]) }

\* The filename's last four characters are  . p d f
HasPdfSuffix(fn) ==
    /\ Len(fn) >= 4
    /\ fn[Len(fn) - 3] = "."
    /\ fn[Len(fn) - 2] = "p"
    /\ fn[Len(fn) - 1] = "d"
    /\ fn[Len(fn)] = "f"

\* PdfReader or some page's extract_text raises on this file.
ParserRaises(f) ==
    \/ f.bytes # "pdf"
    \/ \E i \in 1..Len(f.pages) : ~f.pages[i].ok

\* Number of characters on the first n pages.
RECURSIVE CharsBefore(_, _)
CharsBefore(ps, n) ==
    IF n = 0 THEN 0 ELSE CharsBefore(ps, n - 1) + Len(ps[n].text)

\* t is the page texts of ps in page order with nothing between them:
\* page i's text sits in t right after the texts of pages 1..i-1, and t
\* has no other character.
IsConcatenation(t, ps) ==
    /\ Len(t) = CharsBefore(ps, Len(ps))
    /\ \A i \in 1..Len(ps) :
          SubSeq(t, CharsBefore(ps, i - 1) + 1, CharsBefore(ps, i)) = ps[i].text

\* Every page is extracted and the pages hold some text.
ExtractsText(f) ==
    /\ ~ParserRaises(f)
    /\ CharsBefore(f.pages, Len(f.pages)) > 0

\* Every page is extracted and the pages hold no text.
ExtractsEmpty(f) ==
    /\ ~ParserRaises(f)
    /\ CharsBefore(f.pages, Len(f.pages)) = 0

IsPrefix(s, t) == Len(s) <= Len(t) /\ SubSeq(t, 1, Len(s)) = s

\* ------------------------------------------------------------------ C1
\* C1 as stated: every finished request during whose handling app_state
\* held no rag_chain got the 500 'RAG chain not initialized.' response,
\* whatever file it carried.
C1_Original ==
    \A r \in Requests :
        (Done(r) /\ ~held[r]) => resp[r] = HttpError(500, NotInitializedDetail)

\* C1 amended: a finished request during whose handling app_state held no
\* rag_chain got the 500 'RAG chain not initialized.' response without any
\* chain invocation, provided its filename ends in '.pdf' and its extracted
\* text does not contain "Error:"; a filename not ending in '.pdf' got the
\* 400 'Invalid file type' response and a text containing "Error:" got a 400.
C1_NotInitialized ==
    \A r \in Requests :
        (Done(r) /\ ~held[r]) =>
            IF ~HasPdfSuffix(req[r].filename)
            THEN resp[r] = HttpError(400, InvalidFileTypeDetail)
            ELSE IF Contains(text[r], ErrorMarker)
            THEN resp[r].status = 400
            ELSE /\ resp[r] = HttpError(500, NotInitializedDetail)
                 /\ calls[r] = <<>>

\* A request handled after shutdown cleared app_state got the 500.
C1_Witness ==
    \E r \in Requests :
        /\ Done(r) /\ ~held[r]
        /\ lifespan_pc = "stopped"
        /\ resp[r] = HttpError(500, NotInitializedDetail)

\* ------------------------------------------------------------------ C2
\* C2: for every finished request that reached text extraction and whose
\* file makes the parser raise (the empty byte string included) or yields
\* no text, the extraction returned the error value, the response is the
\* 400 carrying it, and rag_chain.invoke was not called.
C2_UnreadablePdf ==
    \A r \in Requests :
        (/\ Done(r)
         /\ "extract_text" \in Stages(r)
         /\ (ParserRaises(req[r].file) \/ ExtractsEmpty(req[r].file))) =>
            /\ text[r] = ErrorValue
            /\ resp[r] = HttpError(400, ErrorValue)
            /\ calls[r] = <<>>
            /\ "invoke_chain" \notin Stages(r)

\* An upload of the empty byte string was answered 400 while a chain was
\* stored.
C2_Witness ==
    \E r \in Requests :
        /\ Done(r)
        /\ req[r].file = EmptyBytes
        /\ "extract_text" \in Stages(r)
        /\ HoldsChain(app_state)
        /\ resp[r].status = 400

\* ------------------------------------------------------------------ C3
\* C3: every finished request ended in the 200 body or one of the four
\* error responses; a request on which the parser raised or on which the
\* chain invocation failed ended in an error response; and when
\* rag_chain.invoke raised, the response is the 500 with the fixed detail
\* 'An error occurred during analysis.', in which the exception's text
\* does not occur.
C3_NoRawError ==
    \A r \in Requests :
        Done(r) =>
            /\ \/ resp[r].kind = "json" /\ resp[r].status = 200
               \/ resp[r] = HttpError(400, InvalidFileTypeDetail)
               \/ resp[r] = HttpError(400, text[r])
               \/ resp[r] = HttpError(500, NotInitializedDetail)
               \/ resp[r] = HttpError(500, AnalysisErrorDetail)
            /\ ("extract_text" \in Stages(r) /\ ParserRaises(req[r].file)) =>
                  resp[r] = HttpError(400, ErrorValue)
            /\ \A i \in 1..Len(calls[r]) :
                  calls[r][i].outcome.kind # "answer" =>
                      /\ resp[r] = HttpError(500, AnalysisErrorDetail)
                      /\ calls[r][i].outcome.kind = "raise" =>
                            ~Contains(resp[r].detail, calls[r][i].outcome.val)

\* rag_chain.invoke raised on a request.
C3_Witness ==
    \E r \in Requests :
        /\ Done(r)
        /\ Len(calls[r]) = 1
        /\ calls[r][1].outcome.kind = "raise"
        /\ resp[r].status = 500

\* ------------------------------------------------------------------ C4
\* C4: a request answered 200 made exactly one rag_chain.invoke call, whose
\* input is the extracted text (the page texts of its file in page order),
\* the call returned an answer, and the body is {"analysis": that answer}.
C4_Verbatim ==
    \A r \in Requests :
        (Done(r) /\ resp[r].status = 200) =>
            /\ Len(calls[r]) = 1
            /\ calls[r][1].input = text[r]
            /\ IsConcatenation(calls[r][1].input, req[r].file.pages)
            /\ calls[r][1].outcome.kind = "answer"
            /\ resp[r] = AnalysisBody(calls[r][1].outcome.val)

\* A two-page application was analysed.
C4_Witness ==
    \E r \in Requests :
        /\ Done(r)
        /\ resp[r].status = 200
        /\ Len(req[r].file.pages) = 2
        /\ Len(text[r]) = 2

\* ------------------------------------------------------------------ C5
\* C5: a request whose filename does not end in '.pdf' is finished with the
\* 400 'Invalid file type' response after the filename check alone: its
\* body was not read, no text was extracted and no chain was invoked.
C5_InvalidFileType ==
    \A r \in Requests :
        (Started(r) /\ ~HasPdfSuffix(req[r].filename)) =>
            /\ Done(r)
            /\ resp[r] = HttpError(400, InvalidFileTypeDetail)
            /\ trace[r] = <<"filename_check", "respond">>
            /\ text[r] = <<>>
            /\ calls[r] = <<>>

\* A file named '.pdfx' was rejected while a chain was stored.
C5_Witness ==
    \E r \in Requests :
        /\ Done(r)
        /\ req[r].filename = <<".", "p", "d", "f", "x">>
        /\ req[r].file \in { f \in SampleUploads : ExtractsText(f) }
        /\ HoldsChain(app_state)
        /\ resp[r].status = 400

\* ------------------------------------------------------------------ C6
\* C6: app_state['rag_chain'] is written at most once, and a write happens
\* only with the retriever and the chain both built; the lifespan stands at
\* its yield only after that one write; if create_vector_db or
\* create_rag_chain raised, nothing was written, app_state holds no chain
\* and no request has a 200 response; a 200 response implies the write.
C6_OneShotStartup ==
    /\ store_count <= 1
    /\ store_count = 1 =>
          /\ retriever = TheRetriever
          /\ rag_chain = TheChain
          /\ lifespan_pc \in {"serving", "stopped"}
    /\ lifespan_pc \in {"serving", "stopped"} => store_count = 1
    /\ HoldsChain(app_state) => store_count = 1
    /\ lifespan_pc = "failed" =>
          /\ store_count = 0
          /\ ~HoldsChain(app_state)
          /\ \A r \in Requests : resp[r].status # 200
    /\ \A r \in Requests : resp[r].status = 200 => store_count = 1

\* create_rag_chain raised after create_vector_db returned, and a request
\* with a readable PDF was answered afterwards.
C6_Witness ==
    /\ lifespan_pc = "failed"
    /\ retriever = TheRetriever
    /\ \E r \in Requests :
          /\ Done(r)
          /\ ExtractsText(req[r].file)
          /\ resp[r] = HttpError(500, NotInitializedDetail)

\* ------------------------------------------------------------------ C7
\* C7: no step of a request changes app_state or anything of another
\* request; while the lifespan stands at its yield app_state holds exactly
\* the chain built at startup; and two requests finished while it stands
\* there, each having seen the chain, that carry the same filename and file
\* went through the same stages, and got the same response whenever the
\* chain did the same for both.
C7_RequestsIndependent ==
    /\ [][ (req' # req) =>
              /\ app_state' = app_state
              /\ \A r, q \in Requests :
                    (req'[r] # req[r] /\ q # r) =>
                        /\ req'[q] = req[q]
                        /\ resp'[q] = resp[q]
                        /\ text'[q] = text[q]
                        /\ trace'[q] = trace[q]
                        /\ calls'[q] = calls[q] ]_vars
    /\ [](lifespan_pc = "serving" =>
              /\ app_state = [k \in {"rag_chain"} |-> TheChain]
              /\ \A r, q \in Requests :
                    (/\ Done(r) /\ Done(q) /\ held[r] /\ held[q]
                     /\ req[r].filename = req[q].filename
                     /\ req[r].file = req[q].file) =>
                        /\ trace[r] = trace[q]
                        /\ text[r] = text[q]
                        /\ Len(calls[r]) = Len(calls[q])
                        /\ calls[r] = calls[q] => resp[r] = resp[q])

\* Two requests were in flight together while serving; one was rejected
\* with 400 and then the other was answered 200, the chain still stored.
C7_Witness ==
    /\ lifespan_pc = "serving"
    /\ app_state = [k \in {"rag_chain"} |-> TheChain]
    /\ \E r, q \in Requests :
          /\ r # q
          /\ Done(r) /\ resp[r].status = 400 /\ "extract_text" \in Stages(r)
          /\ Done(q) /\ resp[q].status = 200
          /\ held[r] /\ held[q]

\* ------------------------------------------------------------------ C8
CanonicalStages ==
    <<"filename_check", "read_body", "extract_text", "lookup_chain",
      "invoke_chain">>

Executed(r) ==
    IF Done(r) THEN SubSeq(trace[r], 1, Len(trace[r]) - 1) ELSE trace[r]

\* C8: the stages a request has executed are an initial part of (filename
\* check, read body, extract text, look up chain, invoke chain), so in that
\* order and each at most once; a finished request ends with its response;
\* the chain is invoked at most once; a 200 response comes only after all
\* five stages with the invocation having returned an answer, and carries
\* that whole answer; a finished request that stopped earlier or whose
\* invocation failed has an error response.
C8_StagesInOrder ==
    \A r \in Requests :
        /\ IsPrefix(Executed(r), CanonicalStages)
        /\ Started(r) => Len(Executed(r)) >= 1
        /\ Done(r) => /\ trace[r][Len(trace[r])] = "respond"
                      /\ resp[r] # NoResponse
        /\ ~Done(r) => resp[r] = NoResponse
        /\ Len(calls[r]) <= 1
        /\ Len(calls[r]) = 1 <=> Executed(r) = CanonicalStages
        /\ resp[r].status = 200 =>
              /\ Executed(r) = CanonicalStages
              /\ calls[r][1].outcome.kind = "answer"
              /\ resp[r].analysis = calls[r][1].outcome.val
        /\ (/\ Done(r)
            /\ \/ Executed(r) # CanonicalStages
               \/ calls[r][1].outcome.kind # "answer") =>
              /\ resp[r].kind = "http_exception"
              /\ resp[r].status \in {400, 500}

\* A request went through all five stages and its invocation failed.
C8_Witness ==
    \E r \in Requests :
        /\ Done(r)
        /\ Executed(r) = CanonicalStages
        /\ calls[r][1].outcome.kind # "answer"
        /\ resp[r].status = 500

\* ------------------------------------------------------------------ C9
\* C9: for a PDF all of whose pages are extracted and hold some text,
\* load_application_text_from_bytes returns the page texts in page order
\* with nothing between them; if the extraction of a page fails it returns
\* the error value, which is not the text of the pages before that page.
C9_PagesConcatenated ==
    (ex_pc = "returned" /\ ex_pdf_bytes.bytes = "pdf") =>
        LET ps == ex_pdf_bytes.pages
        IN  /\ ExtractsText(ex_pdf_bytes) => IsConcatenation(ex_result, ps)
            /\ \A k \in 1..Len(ps) :
                  ~ps[k].ok =>
                      /\ ex_result = ErrorValue
                      /\ ~IsConcatenation(ex_result, SubSeq(ps, 1, k - 1))

\* A three-page PDF with text on every page was extracted.
C9_Witness ==
    /\ ex_pc = "returned"
    /\ ex_pdf_bytes =
          Pdf(<< Page(<<"a">>), Page(<<"E", "r", "r">>), Page(<<"o", "r", ":">>) >>)
    /\ Len(ex_result) = 7

\* ----------------------------------------------------------------- C10
\* C10: a finished request that reached text extraction has a 400 response
\* exactly when its extracted text contains "Error:"; then the detail is
\* that text and the chain was not invoked.  For a file all of whose pages
\* are extracted and hold some text, that text is the page texts in order,
\* so such a file is rejected too when they contain "Error:".
C10_ErrorSubstring ==
    \A r \in Requests :
        (Done(r) /\ "extract_text" \in Stages(r)) =>
            /\ resp[r].status = 400 <=> Contains(text[r], ErrorMarker)
            /\ Contains(text[r], ErrorMarker) =>
                  /\ resp[r] = HttpError(400, text[r])
                  /\ calls[r] = <<>>
            /\ ExtractsText(req[r].file) =>
                  IsConcatenation(text[r], req[r].file.pages)

\* A PDF extracted without failure whose own text contains "Error:" was
\* rejected with that text as the detail, a chain being stored.
C10_Witness ==
    \E r \in Requests :
        /\ Done(r)
        /\ ExtractsText(req[r].file)
        /\ HoldsChain(app_state)
        /\ text[r] # ErrorValue
        /\ resp[r] = HttpError(400, text[r])
        /\ resp[r].detail # ErrorValue

====
